---- MODULE Spec2Model ----
(***************************************************************************)
(* Site inventory discovery of the Local SEO Sitemap Gap Analyzer          *)
(* (src/app.py): fetch, read_sitemap_xml, same_domain, light_crawl,       *)
(* get_site_inventory, url_to_path and match_existing.                     *)
(*                                                                         *)
(* A URL string is modelled by its parts: scheme, subdomain, registrable   *)
(* domain (tldextract's domain + suffix), path segments and fragment.      *)
(* The network is nondeterministic: every call of fetch chooses a          *)
(* response (none, an error status, or a 200 with any body).               *)
(***************************************************************************)
EXTENDS Integers, Sequences, FiniteSets, TLC

VARIABLES
    call,         \* entry point of the run: "light_crawl" or "get_site_inventory"
    pc,           \* "sitemap" | "titles" | "crawl" | "done"
    max_pages,    \* light_crawl: parameter max_pages
    visited,      \* light_crawl: visited
    queue,        \* light_crawl: queue
    found,        \* light_crawl: found
    urls,         \* read_sitemap_xml: urls
    tried,        \* read_sitemap_xml: tried
    stack,        \* read_sitemap_xml: activations of _parse_sitemap
    sm_urls,      \* get_site_inventory: sm_urls
    idx,          \* get_site_inventory: position of the for loop in sm_urls[:500]
    pages,        \* get_site_inventory: pages
    result,       \* the value returned by the entry point
    crawled,      \* history: light_crawl has been entered in this run
    fetchLog,     \* history: every call of fetch, in order, with its status
    reachable,    \* history: base_url and the in-scope URLs linked from parsed pages
    filtered,     \* history: hrefs of parsed pages that the link filter dropped or rewrote
    skippedLinks, \* history: a page with in-scope links was not 200 and was skipped
    relinked,     \* history: a parsed page linked to a URL already visited or queued
    iterations,   \* history: the iterations of the while loop of light_crawl so far
    listedUrls,   \* history: the <url><loc> values of the sitemap documents parsed
    listedSitemaps, \* history: the <sitemap><loc> values of the sitemap documents
                  \* parsed, other than base_url/sitemap.xml, which is always fetched
    recs,         \* match_existing: parameter recs, the rows of the ideal sitemap
    inventory,    \* match_existing: parameter pages, the records of the inventory
    existing_paths, \* match_existing: existing_paths
    results       \* match_existing: results

vars == <<call, pc, max_pages, visited, queue, found, urls, tried, stack,
          sm_urls, idx, pages, result, crawled, fetchLog, reachable, filtered,
          skippedLinks, relinked, iterations, listedUrls, listedSitemaps, recs, inventory,
          existing_paths, results>>

(***************************************************************************)
(* Bounds of the model.                                                    *)
(***************************************************************************)
MaxPages == 3        \* max_pages of a direct light_crawl call ranges over 0..MaxPages
MaxLinks == 2        \* a[href] elements on one page
MaxSitemapLocs == 2  \* <sitemap><loc> entries in one sitemap document
MaxFetches == 8      \* fetch calls of read_sitemap_xml and light_crawl, and
                     \* iterations of the loop of light_crawl, in one run
MaxOver == 2         \* URLs of a long sitemap beyond the 500 that are fetched
FreeFetches == 2     \* title fetches of a long sitemap whose outcome is left open
MaxUrlLen == 4       \* characters of a URL string after its host

(***************************************************************************)
(* Program constants.                                                      *)
(***************************************************************************)
CrawlCap == 150      \* get_site_inventory: light_crawl(base_url, max_pages=150)
TitleCap == 500      \* get_site_inventory: sm_urls[:500]

(***************************************************************************)
(* URLs.                                                                   *)
(***************************************************************************)
Url(scheme, sub, dom, path, frag) ==
    [scheme |-> scheme, sub |-> sub, dom |-> dom, path |-> path, frag |-> frag]

\* base_url, as normalize_domain produces it: scheme://netloc
Base    == Url("https", "", "site.test", <<>>, "")
PgA     == Url("https", "", "site.test", <<"a">>, "")
PgAFrag == Url("https", "", "site.test", <<"a">>, "#x")
PgBlog  == Url("https", "blog", "site.test", <<"a">>, "")
PgExt   == Url("https", "", "other.test", <<"a">>, "")
Mailto  == Url("mailto", "", "site.test", <<>>, "")       \* mailto:info@site.test

\* the absolute URLs urljoin(url, href) can give for the links of a page: the
\* base URL, a page, the page with a fragment, a page on a subdomain, a page of
\* another registrable domain, and a mailto: link to the base domain
Hrefs == {Base, PgA, PgAFrag, PgBlog, PgExt, Mailto}

\* urljoin(base_url, "/sitemap.xml") and the other sitemap documents
SitemapUrl(base_url) == [base_url EXCEPT !.path = <<"sitemap.xml">>]
SmA == Url("https", "", "site.test", <<"sitemap-a.xml">>, "")
SmB == Url("https", "", "site.test", <<"sitemap-b.xml">>, "")
SitemapUrls == {SitemapUrl(Base), SmA, SmB}

\* the <url><loc> values sitemap documents can list
SitemapPages == {PgA, PgBlog}

\* the i-th URL of a long sitemap, https://site.test/p/<i>, the number written
\* with leading zeros so that the strings are in the order of the numbers
PageNo(i) == Url("https", "", "site.test", <<"p", i>>, "")

\* the URLs above in ascending order of their strings
UrlOrder == <<PgBlog, PgExt, Base, PgA, PgAFrag, SmA, SmB, SitemapUrl(Base), Mailto>>

Range(s) == {s[i] : i \in 1..Len(s)}

SeqsUpTo(S, n) == UNION {[1..k -> S] : k \in 0..n}

Min(a, b) == IF a < b THEN a ELSE b

sorted(S) == SelectSeq(UrlOrder, LAMBDA u : u \in S)

(***************************************************************************)
(* fetch: None, or a response with a status and a body.                    *)
(***************************************************************************)
NoResponse == [recv |-> FALSE, status |-> 0, ctype |-> "", title |-> "",
               links |-> <<>>, smlocs |-> <<>>, urllocs |-> {}]

Titles == {"", "Home"}

\* an HTML page: <title> and a[href] links
PageResponses ==
    {NoResponse} \cup
    [recv : {TRUE}, status : {200}, ctype : {"html"}, title : Titles,
     links : SeqsUpTo(Hrefs, MaxLinks), smlocs : {<<>>}, urllocs : {{}}] \cup
    [recv : {TRUE}, status : {500}, ctype : {"html"}, title : {"Error"},
     links : SeqsUpTo(Hrefs, MaxLinks), smlocs : {<<>>}, urllocs : {{}}]

\* a page fetched for its title alone
TitleResponses == {r \in PageResponses : r.links = <<>>}

\* a sitemap document: a sitemap index of <sitemap><loc> entries, or a urlset
\* of <url><loc> entries
SitemapResponses ==
    {NoResponse} \cup
    [recv : {TRUE}, status : {200, 404}, ctype : {"xml", "html"}, title : {""},
     links : {<<>>}, smlocs : SeqsUpTo(SitemapUrls, MaxSitemapLocs),
     urllocs : {{}}] \cup
    [recv : {TRUE}, status : {200, 404}, ctype : {"xml", "html"}, title : {""},
     links : {<<>>}, smlocs : {<<>>}, urllocs : SUBSET SitemapPages]

LogEntry(url, resp) == [url |-> url, status |-> resp.status]

(***************************************************************************)
(* read_sitemap_xml                                                        *)
(***************************************************************************)
\* lines 72-85: what a fetched sitemap document contributes: its entries when
\* it is a 200 with an XML content type, and nothing otherwise
Parsed(resp) ==
    IF resp.recv /\ resp.status = 200 /\ resp.ctype = "xml"
      THEN [smlocs |-> resp.smlocs, urllocs |-> resp.urllocs]
      ELSE [smlocs |-> <<>>, urllocs |-> {}]

\* mutant of SitemapOk: the content type is not looked at
SitemapOk_AnyType(resp) == resp.recv /\ resp.status = 200

\* line 73, negated
SitemapOk(resp) == resp.recv /\ resp.status = 200 /\ resp.ctype = "xml"

\* mutant of MarkTried: the URL is not recorded
MarkTried_Forget(t, url) == t

\* line 71
MarkTried(t, url) == t \cup {url}

Frame(locs, urllocs) == [locs |-> locs, urllocs |-> urllocs]

Top == stack[Len(stack)]

Pop(s) == SubSeq(s, 1, Len(s) - 1)

\* the activation of read_sitemap_xml itself: line 87 calls _parse_sitemap once
RootFrame(base_url) == Frame(<<SitemapUrl(base_url)>>, {})

\* mutant of UseSitemap: a sitemap of one URL is not used
UseSitemap_MoreThanOne(sm) == Len(sm) > 1

\* line 141: if sm_urls
UseSitemap(sm) == sm # <<>>

\* mutant of TitleOk: a page without a title gets no record
TitleOk_NeedsTitle(resp) == resp.recv /\ resp.status = 200 /\ resp.title # ""

\* line 144
TitleOk(resp) == resp.recv /\ resp.status = 200

\* mutant of Capped: the whole list is fetched
Capped_NoCap(sm) == sm

\* line 142: sm_urls[:500]
Capped(sm) == SubSeq(sm, 1, Min(Len(sm), TitleCap))

(***************************************************************************)
(* same_domain and the link filter of light_crawl                          *)
(***************************************************************************)
\* mutant of same_domain: the registrable domain is not compared
same_domain_SchemeOnly(url_a, url_b) == url_a.scheme = url_b.scheme

\* mutant of same_domain: the whole host name is compared
same_domain_ExactHost(url_a, url_b) == url_a.dom = url_b.dom /\ url_a.sub = url_b.sub

\* lines 91-94: equal (domain, suffix)
same_domain(url_a, url_b) == url_a.dom = url_b.dom

\* line 124
IsMailtoOrTel(abs_url) == abs_url.scheme \in {"mailto", "tel"}

\* mutant of StripFragment: the fragment is kept
StripFragment_Keep(abs_url) == abs_url

\* lines 126-127
StripFragment(abs_url) ==
    IF abs_url.frag # "" THEN [abs_url EXCEPT !.frag = ""] ELSE abs_url

\* mutant of LoopCond: the cap is tested with <= instead of <
LoopCond_OffByOne(q, v, mp) == q # <<>> /\ Cardinality(v) <= mp

\* mutant of LoopCond: the loop runs until the queue is empty
LoopCond_NoCap(q, v, mp) == q # <<>>

\* line 104: the loop condition
LoopCond(q, v, mp) == q # <<>> /\ Cardinality(v) < mp

\* mutant of pop0: the URL is read and left in the queue
pop0_Peek(q) == [url |-> Head(q), queue |-> q]

\* mutant of pop0: the URL queued last is taken
pop0_Last(q) == [url |-> q[Len(q)], queue |-> SubSeq(q, 1, Len(q) - 1)]

\* line 105: queue.pop(0), the URL taken and the queue it leaves
pop0(q) == [url |-> Head(q), queue |-> Tail(q)]

\* mutant of MarkVisited: the URL is not recorded
MarkVisited_Forget(v, url) == v

\* line 108
MarkVisited(v, url) == v \cup {url}

\* mutant of PageOk: an error page of the server is parsed like a 200
PageOk_ServerErrorParsed(resp) == resp.recv /\ resp.status \in {200, 500}

\* mutant of PageOk: any response is parsed, whatever its status
PageOk_AnyStatus(resp) == resp.recv

\* line 110, negated
PageOk(resp) == resp.recv /\ resp.status = 200

\* mutant of Admit: a visited URL is queued again
Admit_Revisit(abs_url, v, q, mp) ==
    /\ abs_url \notin Range(q)
    /\ Cardinality(v) + Len(q) < mp

\* mutant of Admit: the cap is tested with <= instead of <
Admit_OffByOne(abs_url, v, q, mp) ==
    /\ abs_url \notin v
    /\ abs_url \notin Range(q)
    /\ Cardinality(v) + Len(q) <= mp

\* mutant of Admit: no admission control on the frontier
Admit_NoCap(abs_url, v, q, mp) ==
    /\ abs_url \notin v
    /\ abs_url \notin Range(q)

\* line 129
Admit(abs_url, v, q, mp) ==
    /\ abs_url \notin v
    /\ abs_url \notin Range(q)
    /\ Cardinality(v) + Len(q) < mp

\* lines 116-130: the queue after the links of one page
RECURSIVE EnqueueLinks(_, _, _, _, _)
EnqueueLinks(links, base_url, v, q, mp) ==
    IF links = <<>> THEN q
    ELSE LET abs_url == Head(links)
             rest == Tail(links)
         IN  IF ~same_domain(abs_url, base_url)
               THEN EnqueueLinks(rest, base_url, v, q, mp)
             ELSE IF IsMailtoOrTel(abs_url)
               THEN EnqueueLinks(rest, base_url, v, q, mp)
             ELSE IF Admit(StripFragment(abs_url), v, q, mp)
               THEN EnqueueLinks(rest, base_url, v, Append(q, StripFragment(abs_url)), mp)
             ELSE EnqueueLinks(rest, base_url, v, q, mp)

\* the URLs that in-scope links of a page name: https links on the registrable
\* domain of base_url, without their fragment
InScope(links, base_url) ==
    {[h EXCEPT !.frag = ""] :
        h \in {x \in Range(links) : x.scheme = "https" /\ x.dom = base_url.dom}}

\* the links of a page that are not in scope as they stand
OutOfScope(links, base_url) ==
    {h \in Range(links) : h.scheme # "https" \/ h.dom # base_url.dom \/ h.frag # ""}

\* a page links to a URL that is visited or queued already, or twice to one URL
Relinks(links, base_url, v, q) ==
    \/ InScope(links, base_url) \cap (v \cup Range(q)) # {}
    \/ \E i, j \in 1..Len(links) :
          /\ i < j
          /\ InScope(<<links[i]>>, base_url) # {}
          /\ InScope(<<links[i]>>, base_url) = InScope(<<links[j]>>, base_url)

(***************************************************************************)
(* Initial states: a call of get_site_inventory(Base), or a call of        *)
(* light_crawl(Base, max_pages) on its own.                                *)
(***************************************************************************)
InitRun ==
    /\ visited = {}
    /\ found = <<>>
    /\ urls = {}
    /\ tried = {}
    /\ sm_urls = <<>>
    /\ idx = 1
    /\ pages = <<>>
    /\ result = <<>>
    /\ fetchLog = <<>>
    /\ reachable = {Base}
    /\ filtered = {}
    /\ skippedLinks = FALSE
    /\ relinked = FALSE
    /\ iterations = 0
    /\ listedUrls = {}
    /\ listedSitemaps = {}

\* match_existing has not been called
NoMatch ==
    /\ recs = <<>>
    /\ inventory = <<>>
    /\ existing_paths = {}
    /\ results = <<>>

\* get_site_inventory(Base) at line 140, inside read_sitemap_xml at line 87
Init ==
    /\ call = "get_site_inventory"
    /\ pc = "sitemap"
    /\ max_pages = 0
    /\ queue = <<>>
    /\ stack = <<RootFrame(Base)>>
    /\ crawled = FALSE
    /\ InitRun
    /\ NoMatch

\* light_crawl(Base, max_pages) after lines 99-102
InitCrawl ==
    /\ call = "light_crawl"
    /\ pc = "crawl"
    /\ max_pages \in 0..MaxPages
    /\ queue = <<Base>>
    /\ stack = <<>>
    /\ crawled = TRUE
    /\ InitRun
    /\ NoMatch

crawlVars == <<max_pages, visited, queue, found, crawled, reachable, filtered,
               skippedLinks, relinked, iterations>>
sitemapVars == <<urls, tried, stack, sm_urls, listedUrls, listedSitemaps>>
matchVars == <<recs, inventory, existing_paths, results>>

(***************************************************************************)
(* read_sitemap_xml                                                        *)
(***************************************************************************)
\* lines 68-80: one call _parse_sitemap(url), up to its first recursive call
ParseSitemapCall ==
    /\ pc = "sitemap"
    /\ Top.locs # <<>>
    /\ Len(fetchLog) < MaxFetches
    /\ LET url == Head(Top.locs)
           caller == [stack EXCEPT ![Len(stack)].locs = Tail(Top.locs)]
       IN  IF url \in tried
             THEN /\ stack' = caller
                  /\ UNCHANGED <<tried, fetchLog, listedUrls, listedSitemaps>>
             ELSE /\ tried' = MarkTried(tried, url)
                  /\ \E resp \in SitemapResponses :
                       /\ fetchLog' = Append(fetchLog, LogEntry(url, resp))
                       /\ IF ~SitemapOk(resp)
                            THEN stack' = caller
                            ELSE stack' = Append(caller, Frame(resp.smlocs, resp.urllocs))
                       /\ listedUrls' = listedUrls \cup Parsed(resp).urllocs
                       /\ listedSitemaps' = listedSitemaps \cup
                              (Range(Parsed(resp).smlocs) \ {SitemapUrl(Base)})
    /\ UNCHANGED <<call, pc, urls, sm_urls, idx, pages, result>>
    /\ UNCHANGED crawlVars
    /\ UNCHANGED matchVars

\* lines 82-85: the urlset loop that ends one call of _parse_sitemap
ParseSitemapFinish ==
    /\ pc = "sitemap"
    /\ Len(stack) > 1
    /\ Top.locs = <<>>
    /\ urls' = urls \cup Top.urllocs
    /\ stack' = Pop(stack)
    /\ UNCHANGED <<call, pc, tried, sm_urls, idx, pages, result, fetchLog,
                   listedUrls, listedSitemaps>>
    /\ UNCHANGED crawlVars
    /\ UNCHANGED matchVars

\* line 88 and lines 140-141, 149-150 with lines 99-102: read_sitemap_xml
\* returns sorted(urls); get_site_inventory takes the sitemap or calls light_crawl
ReadSitemapReturn ==
    /\ pc = "sitemap"
    /\ Len(stack) = 1
    /\ Top.locs = <<>>
    /\ stack' = <<>>
    /\ sm_urls' = sorted(urls)
    /\ IF UseSitemap(sm_urls')
         THEN /\ pc' = "titles"
              /\ UNCHANGED <<max_pages, queue, crawled>>
         ELSE /\ pc' = "crawl"
              /\ max_pages' = CrawlCap
              /\ queue' = <<Base>>
              /\ crawled' = TRUE
    /\ UNCHANGED <<call, visited, found, urls, tried, idx, pages, result,
                   fetchLog, reachable, filtered, skippedLinks, relinked,
                   iterations, listedUrls, listedSitemaps>>
    /\ UNCHANGED matchVars

(***************************************************************************)
(* get_site_inventory: the title fetches                                   *)
(***************************************************************************)
\* lines 142-147: one iteration of the for loop
TitleFetch ==
    /\ pc = "titles"
    /\ idx <= Len(Capped(sm_urls))
    /\ LET u == Capped(sm_urls)[idx]
       IN  \E resp \in TitleResponses :
             /\ fetchLog' = Append(fetchLog, LogEntry(u, resp))
             /\ pages' = IF TitleOk(resp)
                           THEN Append(pages, [url |-> u, title |-> resp.title])
                           ELSE pages
    /\ idx' = idx + 1
    /\ UNCHANGED <<call, pc, result>>
    /\ UNCHANGED sitemapVars
    /\ UNCHANGED crawlVars
    /\ UNCHANGED matchVars

\* line 148
InventoryReturn ==
    /\ pc = "titles"
    /\ idx > Len(Capped(sm_urls))
    /\ pc' = "done"
    /\ result' = pages
    /\ UNCHANGED <<call, idx, pages, fetchLog>>
    /\ UNCHANGED sitemapVars
    /\ UNCHANGED crawlVars
    /\ UNCHANGED matchVars

(***************************************************************************)
(* light_crawl                                                             *)
(***************************************************************************)
\* lines 104-131: one iteration of the while loop
CrawlStep ==
    /\ pc = "crawl"
    /\ LoopCond(queue, visited, max_pages)
    /\ Len(fetchLog) < MaxFetches
    /\ iterations < MaxFetches
    /\ iterations' = iterations + 1
    /\ LET url == pop0(queue).url
           q == pop0(queue).queue
       IN  IF url \in visited
             THEN /\ queue' = q
                  /\ UNCHANGED <<visited, found, fetchLog, reachable, filtered, skippedLinks, relinked>>
             ELSE /\ visited' = MarkVisited(visited, url)
                  /\ \E resp \in PageResponses :
                       /\ fetchLog' = Append(fetchLog, LogEntry(url, resp))
                       /\ IF ~PageOk(resp)
                            THEN /\ queue' = q
                                 /\ found' = found
                                 /\ UNCHANGED <<reachable, filtered, relinked>>
                                 /\ skippedLinks' =
                                      (skippedLinks \/ InScope(resp.links, Base) # {})
                            ELSE /\ found' = Append(found, [url |-> url, title |-> resp.title])
                                 /\ queue' = EnqueueLinks(resp.links, Base, visited', q, max_pages)
                                 /\ reachable' = reachable \cup InScope(resp.links, Base)
                                 /\ filtered' = filtered \cup OutOfScope(resp.links, Base)
                                 /\ skippedLinks' = skippedLinks
                                 /\ relinked' = (relinked \/ Relinks(resp.links, Base, visited', q))
    /\ UNCHANGED <<call, pc, max_pages, crawled, idx, pages, result>>
    /\ UNCHANGED sitemapVars
    /\ UNCHANGED matchVars

\* line 133 (and line 150: get_site_inventory returns what light_crawl returned)
CrawlReturn ==
    /\ pc = "crawl"
    /\ ~LoopCond(queue, visited, max_pages)
    /\ pc' = "done"
    /\ result' = found
    /\ UNCHANGED <<call, idx, pages, fetchLog>>
    /\ UNCHANGED sitemapVars
    /\ UNCHANGED crawlVars
    /\ UNCHANGED matchVars

Next ==
    \/ ParseSitemapCall
    \/ ParseSitemapFinish
    \/ ReadSitemapReturn
    \/ TitleFetch
    \/ InventoryReturn
    \/ CrawlStep
    \/ CrawlReturn

Spec == Init /\ [][Next]_vars

NextCrawl ==
    \/ CrawlStep
    \/ CrawlReturn

SpecCrawl == InitCrawl /\ [][NextCrawl]_vars

\* get_site_inventory(Base) at line 141, after read_sitemap_xml returned the
\* sorted list of a sitemap of one or two URLs, or of about 500 URLs
InitTitles ==
    /\ call = "get_site_inventory"
    /\ pc = "titles"
    /\ max_pages = 0
    /\ queue = <<>>
    /\ stack = <<>>
    /\ crawled = FALSE
    /\ visited = {}
    /\ found = <<>>
    /\ \E n \in {1, 2} \cup (TitleCap - 1)..(TitleCap + MaxOver) :
         /\ sm_urls = [i \in 1..n |-> PageNo(i)]
         /\ urls = Range(sm_urls)
         /\ listedUrls = Range(sm_urls)
    /\ listedSitemaps = {}
    /\ NoMatch
    /\ tried = {SitemapUrl(Base)}
    /\ idx = 1
    /\ pages = <<>>
    /\ result = <<>>
    /\ fetchLog = <<[url |-> SitemapUrl(Base), status |-> 200]>>
    /\ reachable = {Base}
    /\ filtered = {}
    /\ skippedLinks = FALSE
    /\ relinked = FALSE
    /\ iterations = 0

\* the network while a long sitemap is fetched: after the first FreeFetches
\* title fetches, every second URL is a 200 with a title and the others a 500
TitleOutcomes ==
    idx > FreeFetches =>
        /\ fetchLog'[Len(fetchLog')].status = (IF idx % 2 = 0 THEN 200 ELSE 500)
        /\ pages' # pages => pages'[Len(pages')].title = "Home"

NextTitles ==
    \/ TitleFetch /\ TitleOutcomes
    \/ InventoryReturn

SpecTitles == InitTitles /\ [][NextTitles]_vars

(***************************************************************************)
(* url_to_path and match_existing.  Here a URL string is the scheme and    *)
(* host followed by the characters of the rest; a path is a string of      *)
(* characters.                                                             *)
(***************************************************************************)
Chars == {"/", ".", "b", ";", "?", "#"}

\* the strings of a URL after its host: empty, or from a "/", "?" or "#" on
UrlRests ==
    {s \in SeqsUpTo(Chars, MaxUrlLen) : s = <<>> \/ s[1] \in {"/", "?", "#"}}

UrlString(rest) == [scheme |-> "https", netloc |-> "site.test", rest |-> rest]

\* str.find(c, start) and str.rfind(c) with positions from 1, 0 when absent
find(s, c, start) ==
    IF \E i \in start..Len(s) : s[i] = c
      THEN CHOOSE i \in start..Len(s) :
               s[i] = c /\ \A j \in start..(i - 1) : s[j] # c
      ELSE 0

rfind(s, c) ==
    IF \E i \in 1..Len(s) : s[i] = c
      THEN CHOOSE i \in 1..Len(s) :
               s[i] = c /\ \A j \in (i + 1)..Len(s) : s[j] # c
      ELSE 0

\* s.split(c, 1)[0]
Before(s, c) == IF find(s, c, 1) = 0 THEN s ELSE SubSeq(s, 1, find(s, c, 1) - 1)

\* line 255: urlparse(url).path: the rest of the URL without its fragment, its
\* query and the parameters of its last segment
urlparse(url) ==
    LET noFragment == Before(url.rest, "#")
        noQuery == Before(noFragment, "?")
        i == IF rfind(noQuery, "/") > 0
               THEN find(noQuery, ";", rfind(noQuery, "/"))
               ELSE find(noQuery, ";", 1)
    IN  [path |-> IF i = 0 THEN noQuery ELSE SubSeq(noQuery, 1, i - 1)]

\* path.endswith(c)
endswith(path, c) == path # <<>> /\ path[Len(path)] = c

\* path.split("/")[-1]
LastSegment(path) == SubSeq(path, rfind(path, "/") + 1, Len(path))

\* mutant of url_to_path: a slash is appended to a path that ends in one
url_to_path_AlwaysSlash(url) ==
    LET parsed == urlparse(url)
        path == IF parsed.path = <<>> THEN <<"/">> ELSE parsed.path
    IN  IF "." \notin Range(LastSegment(path))
          THEN path \o <<"/">>
          ELSE path

\* mutant of url_to_path: a slash is appended after a file name
url_to_path_NoDotCheck(url) ==
    LET parsed == urlparse(url)
        path == IF parsed.path = <<>> THEN <<"/">> ELSE parsed.path
    IN  IF ~endswith(path, "/")
          THEN path \o <<"/">>
          ELSE path

\* lines 254-259
url_to_path(url) ==
    LET parsed == urlparse(url)
        path == IF parsed.path = <<>> THEN <<"/">> ELSE parsed.path
    IN  IF ~endswith(path, "/") /\ "." \notin Range(LastSegment(path))
          THEN path \o <<"/">>
          ELSE path

\* the paths of the rows of the ideal sitemap: "/" and "/b/"
IdealPaths == {<<"/">>, <<"/", "b", "/">>}

\* pages of a site: its home page, /b and /b/
KnownUrls ==
    {UrlString(<<>>), UrlString(<<"/", "b">>), UrlString(<<"/", "b", "/">>)}

Page(url) == [url |-> url, title |-> ""]

\* match_existing(recs, pages) at line 263: one or two rows of the ideal
\* sitemap, and an inventory of one page of any URL, alone or before a known page
InitMatch ==
    /\ call = "match_existing"
    /\ pc = "match"
    /\ max_pages = 0
    /\ queue = <<>>
    /\ stack = <<>>
    /\ crawled = FALSE
    /\ InitRun
    /\ recs \in {r \in SeqsUpTo([path : IdealPaths], 2) :
                   r # <<>> /\ Cardinality(Range(r)) = Len(r)}
    /\ \E rest \in UrlRests :
         \/ inventory = <<Page(UrlString(rest))>>
         \/ \E known \in KnownUrls : inventory = <<Page(UrlString(rest)), Page(known)>>
    /\ existing_paths = {}
    /\ results = <<>>

\* lines 262-272
MatchExisting ==
    /\ pc = "match"
    /\ existing_paths' = {url_to_path(p.url) : p \in Range(inventory)}
    /\ results' = [i \in 1..Len(recs) |->
                     [path |-> recs[i].path,
                      exists |-> recs[i].path \in existing_paths']]
    /\ pc' = "matched"
    /\ UNCHANGED <<call, idx, pages, result, fetchLog, recs, inventory>>
    /\ UNCHANGED sitemapVars
    /\ UNCHANGED crawlVars

NextMatch == MatchExisting

SpecMatch == InitMatch /\ [][NextMatch]_vars

\* the run is single-threaded and synchronous: an enabled step is taken
LiveSpec == Spec /\ WF_vars(Next)

LiveSpecCrawl == SpecCrawl /\ WF_vars(NextCrawl)

(***************************************************************************)
(* Properties of light_crawl                                               *)
(***************************************************************************)
Max(a, b) == IF a > b THEN a ELSE b

FoundUrls == {found[i].url : i \in 1..Len(found)}

FetchedUrls == {fetchLog[i].url : i \in 1..Len(fetchLog)}

\* the fetch calls that light_crawl made: the entries of fetchLog for page URLs
\* once light_crawl has been entered
CrawlFetches == IF crawled THEN SelectSeq(fetchLog, LAMBDA e : e.url \notin SitemapUrls)
                ELSE <<>>

\* C1: the visited set never has more than max_pages URLs, and one crawl
\* issues at most max_pages fetches
C1_VisitedWithinCap ==
    /\ Cardinality(visited) <= max_pages
    /\ Len(CrawlFetches) <= max_pages

\* the cap stopped a crawl that had more URLs to visit
C1_Witness ==
    /\ pc = "done"
    /\ max_pages = 2
    /\ Cardinality(visited) = max_pages
    /\ Cardinality(reachable) > max_pages

\* C2: no URL is fetched twice in one crawl, and no URL is in two records
C2_NoRefetch ==
    /\ \A i, j \in 1..Len(CrawlFetches) :
         CrawlFetches[i].url = CrawlFetches[j].url => i = j
    /\ \A i, j \in 1..Len(found) : found[i].url = found[j].url => i = j

\* a crawl of three pages, one of which linked to a URL already visited or queued
C2_Witness ==
    /\ pc = "done"
    /\ relinked
    /\ Len(found) = 3

\* C3 as stated: visited plus queued never exceeds max_pages
C3_Original == Cardinality(visited) + Len(queue) <= max_pages

\* C3 amended: visited plus queued never exceeds max_pages when max_pages >= 1;
\* with max_pages = 0 the sum is at most 1 (the base URL, queued at the start)
C3_FrontierWithinCap == Cardinality(visited) + Len(queue) <= Max(max_pages, 1)

\* the frontier is full: a page was parsed, URLs are queued, and a linked URL
\* was refused
C3_Witness ==
    /\ pc = "crawl"
    /\ max_pages = 2
    /\ Len(queue) = 1
    /\ Cardinality(visited) + Len(queue) = max_pages
    /\ Cardinality(reachable) > max_pages

\* C4: no URL of another registrable domain is ever queued, visited, fetched
\* or returned; a link to a subdomain of the base URL's registrable domain is
\* queued unless it is known already or the frontier is full
C4_SameDomainOnly ==
    /\ \A u \in Range(queue) \cup visited \cup FoundUrls :
         u.dom = Base.dom
    /\ \A i \in 1..Len(CrawlFetches) : CrawlFetches[i].url.dom = Base.dom
    /\ \A u \in reachable :
         \/ u \in visited \cup Range(queue)
         \/ Cardinality(visited) + Len(queue) >= max_pages

\* a parsed page linked to other.test/a and to blog.site.test/a: the first was
\* dropped, the second was fetched
C4_Witness ==
    /\ pc = "done"
    /\ PgExt \in filtered
    /\ PgBlog \in FoundUrls
    /\ PgBlog.sub # Base.sub

(***************************************************************************)
(* Properties of read_sitemap_xml                                          *)
(***************************************************************************)
\* the fetch calls that read_sitemap_xml made
SitemapFetches == SelectSeq(fetchLog, LAMBDA e : e.url \in SitemapUrls)

\* no sitemap URL is fetched twice, and every fetched URL is marked tried
SitemapFetchedOnce ==
    /\ \A i, j \in 1..Len(SitemapFetches) :
         SitemapFetches[i].url = SitemapFetches[j].url => i = j
    /\ pc = "sitemap" =>
         \A i \in 1..Len(SitemapFetches) : SitemapFetches[i].url \in tried

\* a step that fetches a sitemap URL takes a URL that was not tried and marks it
FetchMarksTried ==
    fetchLog' # fetchLog /\ pc = "sitemap" =>
        /\ Head(Top.locs) \notin tried
        /\ Head(Top.locs) \in tried'
        /\ fetchLog'[Len(fetchLog')].url = Head(Top.locs)

\* C5: read_sitemap_xml returns, whatever the sitemap documents reference, and
\* fetches no sitemap URL twice: a URL is marked tried when it is fetched and
\* a tried URL is not fetched again
C5_SitemapCycleSafe ==
    /\ []SitemapFetchedOnce
    /\ [][FetchMarksTried]_vars
    /\ <>(pc # "sitemap")

\* a sitemap index two levels below /sitemap.xml references /sitemap.xml, which
\* is tried already: the reference is about to be skipped
C5_Witness ==
    /\ pc = "sitemap"
    /\ Len(stack) = 3
    /\ Top.locs # <<>>
    /\ Head(Top.locs) = SitemapUrl(Base)
    /\ Head(Top.locs) \in tried

(***************************************************************************)
(* Properties of get_site_inventory                                        *)
(***************************************************************************)
ResultUrls == {result[i].url : i \in 1..Len(result)}

\* C6: light_crawl is called if and only if read_sitemap_xml returned no URL;
\* when it returned one, nothing of light_crawl runs, however the title
\* fetches end; when it returned none, the result is what
\* light_crawl(base_url, 150) returns
C6_EitherOr ==
    /\ pc = "sitemap" => ~crawled
    /\ pc # "sitemap" => (crawled <=> sm_urls = <<>>)
    /\ ~crawled =>
         /\ visited = {} /\ queue = <<>> /\ found = <<>>
         /\ FetchedUrls \subseteq SitemapUrls \cup Range(sm_urls)
         /\ pc = "done" => result = pages
    /\ crawled =>
         /\ max_pages = CrawlCap
         /\ pages = <<>>
         /\ CrawlFetches # <<>> => CrawlFetches[1].url = Base
         /\ pc = "done" => result = found

\* the sitemap listed two URLs, one title fetch failed, and light_crawl did
\* not run
C6_Witness ==
    /\ pc = "done"
    /\ Len(sm_urls) = 2
    /\ Len(result) = 1
    /\ ~crawled

\* C8 as stated: an empty result only when the sitemap gave no URL and the
\* crawl gave no page
C8_Original ==
    pc = "done" /\ result = <<>> => sm_urls = <<>> /\ crawled /\ found = <<>>

\* C8 amended: an empty result only when the sitemap gave no URL and the crawl
\* gave no page, or when the sitemap gave URLs and the title fetch of every one
\* of the first 500 of them failed or was not 200
C8_EmptyOnlyWhen ==
    pc = "done" /\ result = <<>> =>
        \/ /\ sm_urls = <<>>
           /\ crawled
           /\ \A i \in 1..Len(CrawlFetches) : CrawlFetches[i].status # 200
        \/ /\ sm_urls # <<>>
           /\ \A i \in 1..Len(Capped(sm_urls)) :
                \E k \in 1..Len(fetchLog) :
                    /\ fetchLog[k].url = sm_urls[i]
                    /\ fetchLog[k].status # 200
           /\ \A k \in 1..Len(fetchLog) :
                fetchLog[k].url \in Range(sm_urls) => fetchLog[k].status # 200

\* the sitemap listed two URLs and both title fetches failed
C8_Witness ==
    /\ pc = "done"
    /\ result = <<>>
    /\ Len(sm_urls) = 2
    /\ Len(fetchLog) >= 3

\* C10: when the sitemap gives nothing and the in-scope URLs linked from the
\* parsed pages are no more than the page cap, the inventory has one record
\* for each of them that was fetched with status 200, and none for any URL of
\* another registrable domain
C10_CrawlInventory ==
    pc = "done" /\ crawled /\ Cardinality(reachable) <= max_pages =>
        /\ ResultUrls =
             {u \in reachable :
                \E k \in 1..Len(CrawlFetches) :
                    CrawlFetches[k].url = u /\ CrawlFetches[k].status = 200}
        /\ \A u \in reachable : \E k \in 1..Len(CrawlFetches) : CrawlFetches[k].url = u
        /\ \A i, j \in 1..Len(result) : result[i].url = result[j].url => i = j
        /\ \A u \in ResultUrls : u.dom = Base.dom

\* /sitemap.xml is 404; the home page and two linked in-scope pages give three
\* records, and the link to other.test gives none
C10_Witness ==
    /\ pc = "done"
    /\ fetchLog[1] = [url |-> SitemapUrl(Base), status |-> 404]
    /\ Len(result) = 3
    /\ PgExt \in filtered

(***************************************************************************)
(* Further properties of light_crawl                                       *)
(***************************************************************************)
Last(s) == s[Len(s)]

\* C7: an iteration whose fetch fails or is not 200 adds no record and queues
\* nothing, and the loop goes on while the queue is not empty
C7_FailedFetchSkipped ==
    [][pc = "crawl" /\ fetchLog' # fetchLog /\ Last(fetchLog').status # 200 =>
          /\ found' = found
          /\ queue' = Tail(queue)
          /\ reachable' = reachable
          /\ queue' # <<>> => pc' = "crawl" /\ Cardinality(visited') < max_pages]_vars

\* the second page was a 500 with in-scope links in its body; the third page
\* was fetched after it
C7_Witness ==
    /\ pc = "done"
    /\ skippedLinks
    /\ Len(CrawlFetches) = 3
    /\ CrawlFetches[2].status = 500
    /\ Len(found) = 2

\* C9: with max_pages = 1 and a home page that is 200, the crawl returns one
\* record, for the base URL, after one fetch; the list of records never has
\* more than max_pages entries
C9_CapOne ==
    /\ Len(found) <= max_pages
    /\ pc = "done" => Len(result) <= max_pages
    /\ pc = "done" /\ max_pages = 1 /\ CrawlFetches # <<>>
          /\ CrawlFetches[1].status = 200 =>
            /\ Len(result) = 1
            /\ result[1].url = Base
            /\ Len(CrawlFetches) = 1
            /\ CrawlFetches[1].url = Base

\* max_pages = 1 and the home page links to two further in-scope pages
C9_Witness ==
    /\ pc = "done"
    /\ max_pages = 1
    /\ Len(result) = 1
    /\ Cardinality(reachable) = 3

\* the title fetches of the run: the fetch log after the sitemap fetches
TitleFetches == SubSeq(fetchLog, Cardinality(tried) + 1, Len(fetchLog))

\* the title fetches that answered 200, in fetch order
TitleOkFetched == SelectSeq(TitleFetches, LAMBDA e : e.status = 200)

\* C11: with a non-empty sitemap list, get_site_inventory fetches the first
\* 500 URLs of the sorted list and no other, in that order, never crawls, and
\* returns exactly one record for each fetched URL that answered 200, in the
\* order of the list; a failed or non-200 fetch and a URL beyond the first 500
\* give no record
C11_SitemapInventory ==
    /\ ~crawled /\ visited = {}
    /\ Len(TitleFetches) <= TitleCap
    /\ Len(TitleFetches) <= Len(sm_urls)
    /\ \A k \in 1..Len(TitleFetches) : TitleFetches[k].url = sm_urls[k]
    /\ pc = "done" =>
        /\ Len(TitleFetches) = Min(Len(sm_urls), TitleCap)
        /\ Len(result) = Len(TitleOkFetched)
        /\ \A i \in 1..Len(result) : result[i].url = TitleOkFetched[i].url

\* a sitemap of 501 URLs: 500 fetched, some answered 200 and some did not,
\* among them a 200 with an empty title and a failed fetch
C11_Witness ==
    /\ pc = "done"
    /\ Len(sm_urls) = TitleCap + 1
    /\ Len(TitleFetches) = TitleCap
    /\ Len(result) > 0 /\ Len(result) < TitleCap
    /\ result[1].title = ""
    /\ TitleFetches[2].status = 0

\* position of a URL in the ascending order of the URL strings
OrderIndex(u) == CHOOSE i \in 1..Len(UrlOrder) : UrlOrder[i] = u

\* a sequence of URLs in strictly ascending order: sorted, without duplicates
Ascending(s) ==
    \A i, j \in 1..Len(s) : i < j => OrderIndex(s[i]) < OrderIndex(s[j])

\* C12: read_sitemap_xml returns, in ascending order and without duplicates,
\* exactly the <url><loc> values of the documents that were fetched as a 200
\* with an XML content type; the documents fetched are base/sitemap.xml and
\* the <sitemap><loc> values of such documents, each one once; a document that
\* failed, was not 200 or was not XML contributes nothing and the walk goes on
\* with its siblings
C12_SitemapUrls ==
    /\ listedUrls \subseteq SitemapPages
    /\ tried \subseteq {SitemapUrl(Base)} \cup listedSitemaps
    /\ pc # "sitemap" =>
        /\ Range(sm_urls) = listedUrls
        /\ Len(sm_urls) = Cardinality(listedUrls)
        /\ Ascending(sm_urls)
        /\ tried = {SitemapUrl(Base)} \cup listedSitemaps
        /\ SitemapFetchedOnce

\* an index lists two children: the first one is fetched and is not a usable
\* document although its body lists a URL, the second one is fetched after it
\* and its two URLs are returned
C12_Witness ==
    /\ pc = "titles"
    /\ sm_urls = <<PgBlog, PgA>>
    /\ Len(fetchLog) >= 3
    /\ fetchLog[2].status # 200
    /\ fetchLog[3].status = 200
    /\ listedSitemaps = {SmA, SmB}

\* the URL with the scheme and host of url and the path p
Rebuilt(url, p) == [url EXCEPT !.rest = p]

\* C13: url_to_path is idempotent: for a URL u, the URL of the same scheme and
\* host with the path url_to_path(u) normalizes to url_to_path(u)
C13_Idempotent ==
    /\ \A p \in Range(inventory) :
         url_to_path(Rebuilt(p.url, url_to_path(p.url))) = url_to_path(p.url)
    /\ \A path \in existing_paths :
         url_to_path(UrlString(path)) = path

\* the page /b?# was normalized to /b/, which is not its path
C13_Witness ==
    /\ pc = "matched"
    /\ inventory = <<Page(UrlString(<<"/", "b", "?", "#">>))>>
    /\ existing_paths = {<<"/", "b", "/">>}

\* no "." in the final segment of a path: none after its last "/"
NoDotInFinalSegment(path) ==
    \A i \in 1..Len(path) :
        path[i] = "." => \E j \in (i + 1)..Len(path) : path[j] = "/"

\* C14: url_to_path returns "/" for an empty path, the path and a "/" for a
\* path that does not end in "/" and has no "." in its final segment, and the
\* path itself otherwise; so /b and /b/ normalize to the same string, and a
\* page of either path makes the row /b/ of the ideal sitemap exist
C14_PathCases ==
    /\ \A p \in Range(inventory) :
         LET path == urlparse(p.url).path
             normal == url_to_path(p.url)
         IN  /\ path = <<>> => normal = <<"/">>
             /\ path # <<>> /\ path[Len(path)] # "/" /\ NoDotInFinalSegment(path)
                  => normal = path \o <<"/">>
             /\ path # <<>> /\ (path[Len(path)] = "/" \/ ~NoDotInFinalSegment(path))
                  => normal = path
    /\ url_to_path(UrlString(<<"/", "b">>)) = url_to_path(UrlString(<<"/", "b", "/">>))
    /\ pc = "matched" =>
         \A i \in 1..Len(results) :
             /\ results[i].path = recs[i].path
             /\ results[i].path = <<"/", "b", "/">> =>
                  (results[i].exists <=>
                     \E p \in Range(inventory) :
                         urlparse(p.url).path \in {<<"/", "b">>, <<"/", "b", "/">>})
             /\ results[i].path = <<"/">> =>
                  (results[i].exists <=>
                     \E p \in Range(inventory) : urlparse(p.url).path \in {<<>>, <<"/">>})

\* the inventory has the page /b alone: the row /b/ exists and the row / does not
C14_Witness ==
    /\ pc = "matched"
    /\ inventory = <<Page(UrlString(<<"/", "b">>))>>
    /\ Len(results) = 2
    /\ results[1] = [path |-> <<"/", "b", "/">>, exists |-> TRUE]
    /\ results[2] = [path |-> <<"/">>, exists |-> FALSE]

\* C15: when the fetch of the base URL fails or is not a 200, that fetch is
\* the only one of the crawl, nothing is queued or recorded, and light_crawl
\* returns the empty list
C15_BaseFetchFails ==
    (CrawlFetches # <<>> /\ CrawlFetches[1].status # 200) =>
        /\ CrawlFetches[1].url = Base
        /\ Len(CrawlFetches) = 1
        /\ iterations = 1
        /\ queue = <<>>
        /\ found = <<>>
        /\ pc = "done" => result = <<>>

\* the base URL answered 500 with links in its body, and the crawl returned
C15_Witness ==
    /\ pc = "done"
    /\ result = <<>>
    /\ Len(fetchLog) = 1
    /\ fetchLog[1] = [url |-> Base, status |-> 500]
    /\ skippedLinks

AdmissionOrder == [i \in 1..Len(CrawlFetches) |-> CrawlFetches[i].url] \o queue

IsPrefix(s, t) == Len(s) <= Len(t) /\ SubSeq(t, 1, Len(s)) = s

\* the fetches of the crawl that answered 200, in fetch order
CrawlOkFetched == SelectSeq(CrawlFetches, LAMBDA e : e.status = 200)

\* C17: the queue is first-in first-out and the result is in fetch order: a
\* step leaves the order of the fetched and queued URLs as it was and adds
\* the new URLs at its end, so a URL queued before another is fetched before
\* it; the records are the 200 fetches in fetch order, the base URL first
\* when its fetch was a 200
C17_Fifo ==
    /\ [][IsPrefix(AdmissionOrder, AdmissionOrder')]_vars
    /\ [](/\ Len(found) = Len(CrawlOkFetched)
          /\ \A i \in 1..Len(found) : found[i].url = CrawlOkFetched[i].url
          /\ (CrawlFetches # <<>> /\ CrawlFetches[1].status = 200)
                => found[1].url = Base)

\* the base page queued the subdomain page and then /a; they were fetched
\* and recorded in that order
C17_Witness ==
    /\ pc = "done"
    /\ Len(fetchLog) = 3
    /\ fetchLog[2].url = PgBlog /\ fetchLog[3].url = PgA
    /\ Len(result) = 3
    /\ result[1].url = Base /\ result[2].url = PgBlog /\ result[3].url = PgA

WithoutFragment(u) == [u EXCEPT !.frag = ""]

\* C18: no queued or fetched URL is a mailto: or tel: URL or has a fragment,
\* and the URLs that differ only in their fragment have at most one queue
\* entry and one fetch between them
C18_NoFragmentNoMailto ==
    /\ \A u \in Range(queue) \cup visited \cup FetchedUrls :
         u.scheme \notin {"mailto", "tel"} /\ u.frag = ""
    /\ \A i, j \in 1..Len(AdmissionOrder) :
         WithoutFragment(AdmissionOrder[i]) = WithoutFragment(AdmissionOrder[j])
            => i = j

\* pages linked to /a, to /a#x and to a mailto: address; /a was fetched once
C18_Witness ==
    /\ pc = "done"
    /\ {PgAFrag, Mailto} \subseteq filtered
    /\ relinked
    /\ PgA \in visited
    /\ Cardinality({i \in 1..Len(fetchLog) : fetchLog[i].url = PgA}) = 1

\* C19: the queue has no URL twice and no visited URL, so the branch of line
\* 106 is never taken: every iteration of the loop adds one URL to visited
\* and makes one fetch
C19_SkipBranchDead ==
    /\ [](/\ \A i, j \in 1..Len(queue) : queue[i] = queue[j] => i = j
          /\ Range(queue) \cap visited = {}
          /\ iterations = Len(CrawlFetches)
          /\ iterations = Cardinality(visited))
    /\ [][iterations' # iterations =>
            /\ Head(queue) \notin visited
            /\ visited' = visited \cup {Head(queue)}
            /\ Len(fetchLog') = Len(fetchLog) + 1
            /\ fetchLog'[Len(fetchLog')].url = Head(queue)]_vars

\* a page linked to URLs that were visited or queued already, and the crawl
\* went on to a third iteration
C19_Witness ==
    /\ relinked
    /\ iterations = 3
    /\ Cardinality(visited) = 3
    /\ Len(fetchLog) = 3

\* C20: with max_pages >= 1, light_crawl returns with an empty queue: the loop
\* does not stop on the cap while a URL is queued, and every queued URL is
\* fetched before the return
C20_ReturnsOnEmptyQueue ==
    /\ [](max_pages >= 1 /\ pc = "done" => queue = <<>>)
    /\ [](max_pages >= 1 /\ queue # <<>> => Cardinality(visited) < max_pages)
    /\ \A u \in Hrefs :
         (max_pages >= 1 /\ u \in Range(queue)) ~> (pc = "crawl" /\ u \in FetchedUrls)

\* the cap of three pages was reached with the queue empty, after two URLs
\* had been queued and fetched
C20_Witness ==
    /\ pc = "done"
    /\ max_pages = 3
    /\ Cardinality(visited) = max_pages
    /\ queue = <<>>
    /\ FetchedUrls = {Base, PgA, PgBlog}

====
